---- MODULE Spec2Model ----
(***************************************************************************)
(* A model of the path tracer: the vector kernel (vec3.h), ray.h,          *)
(* interval.h, the sphere and the aggregate (sphere.h, hittable_list.h),   *)
(* the hit record (hittableObject.h), the three materials (material.h),    *)
(* the pixel writer (color.h) and the camera's render loop and recursive   *)
(* integrator (camera.h).                                                  *)
(*                                                                         *)
(* Numbers.  A C++ double is modelled as a fixed-point number: the integer *)
(* n stands for n/Unit, and every arithmetic operation rounds its exact    *)
(* result to the nearest representable value, as IEEE arithmetic does at   *)
(* its own (finer) resolution.  +infinity is the value `infinity`, which   *)
(* is larger than every finite value the model computes.                   *)
(***************************************************************************)
EXTENDS Integers, Sequences, FiniteSets, TLC

VARIABLES
    \* ---- hittable_list::hit (hittable_list.h:36-49) ----
    pcH,              \* position in hittable_list::hit: "idle", "loop", "done"
    r,                \* the ray argument
    ray_t,            \* the interval argument
    scene_objects,    \* the list's members, in order
    idx,              \* number of members the for loop has visited
    tmp,              \* local hit_record tmp
    hit_anything,     \* local bool
    closest_so_far,   \* local double
    rec,              \* the caller's hit_record (out parameter)
    rec0,             \* history: the caller's record when the call began
    last_call,        \* history: the member call the loop made last
    \* ---- material::scatter (material.h) ----
    pcS,              \* position of the scatter call: "idle", "call", "returned"
    mat,              \* the material scatter is called on (rec.mat)
    r_in,             \* the incoming ray
    hrec,             \* the hit record passed in
    attenuation,      \* out parameter
    scattered,        \* out parameter
    scatter_ret,      \* the call's return value
    trace,            \* history: the branch taken and the intermediate values
    \* ---- camera::ray_color (camera.h:140-162) ----
    pcC,              \* "idle", "run", "done"
    world,            \* the scene ray_color and render are given
    depth0,           \* the depth of the top-level call
    stack,            \* the activations of ray_color, outermost first
    retval,           \* the value the innermost finished activation returned
    \* ---- camera::render (camera.h:31-69) ----
    pcR,              \* "idle", "begin", "row", "col", "sample", "done"
    cam,              \* the camera: its public fields, and the private ones
    loop_j,           \* the row loop's j
    loop_i,           \* the column loop's i
    loop_s,           \* the sample loop's s
    pixel_color,      \* the accumulator of the pixel being sampled
    out,              \* the (i, j) of the pixels written to cout, in order
    emitted,          \* the three integers the step just taken wrote, <<>> if none
    n_acc,            \* history: colours added to pixel_color since it was set
    last_sample,      \* history: the pixel and depth of the last ray_color call
    \* ---- a call of vec3::near_zero or of a material's constructor ----
    pcK,              \* "idle", "call", "returned"
    fn,               \* the function called
    fn_arg,           \* its argument(s)
    fn_ret            \* its return value, or the object constructed

hitVars == <<pcH, r, ray_t, scene_objects, idx, tmp, hit_anything, closest_so_far, rec, rec0, last_call>>

scatterVars == <<pcS, mat, r_in, hrec, attenuation, scattered, scatter_ret, trace>>

colorVars == <<pcC, depth0, stack, retval>>

renderVars == <<pcR, cam, loop_j, loop_i, loop_s, pixel_color, out, emitted, n_acc, last_sample>>

callVars == <<pcK, fn, fn_arg, fn_ret>>

vars == <<hitVars, scatterVars, colorVars, world, renderVars, callVars>>

----------------------------------------------------------------------------
(* Fixed-point arithmetic on doubles *)

\* One: the number of representable steps in 1.0 (the source's finest literals,
\* 0.001, 0.999 and 255.999, have three decimals).
Unit == 1000

\* +infinity of rtweekend.h: above every finite value.
infinity == 2000000000

Abs(x) == IF x < 0 THEN -x ELSE x

Sign(x) == IF x < 0 THEN -1 ELSE IF x > 0 THEN 1 ELSE 0

\* n/d rounded to the nearest integer (ties away from zero), d > 0.
RoundDiv(n, d) == Sign(n) * ((2 * Abs(n) + d) \div (2 * d))

\* double * double
Mul(x, y) == RoundDiv(x * y, Unit)

\* double / double, y # 0
Div(x, y) == IF y > 0 THEN RoundDiv(x * Unit, y) ELSE RoundDiv(-(x * Unit), -y)

RECURSIVE ISqrtIter(_, _, _)
\* the largest s in lo..hi with s*s <= n (lo*lo <= n < (hi+1)*(hi+1))
ISqrtIter(n, lo, hi) ==
    IF lo >= hi THEN lo
    ELSE LET mid == (lo + hi + 1) \div 2
         IN  IF mid * mid <= n THEN ISqrtIter(n, mid, hi)
             ELSE ISqrtIter(n, lo, mid - 1)

ISqrt(n) == ISqrtIter(n, 0, 46340)

\* sqrt(x) for x >= 0, rounded to nearest
Sqrt(x) ==
    LET nearest(n, s) == IF n - s * s > s THEN s + 1 ELSE s
    IN  nearest(x * Unit, ISqrt(x * Unit))

----------------------------------------------------------------------------
(* vec3.h *)

\* vec3(i, j, k) with whole-number components
V(i, j, k) == <<i * Unit, j * Unit, k * Unit>>

VNeg(v) == <<-v[1], -v[2], -v[3]>>

VAdd(u, v) == <<u[1] + v[1], u[2] + v[2], u[3] + v[3]>>

VSub(u, v) == <<u[1] - v[1], u[2] - v[2], u[3] - v[3]>>

\* operator*(double t, const vec3& v)
VScale(t, v) == <<Mul(t, v[1]), Mul(t, v[2]), Mul(t, v[3])>>

\* operator*(const vec3& u, const vec3& v)
VMul(u, v) == <<Mul(u[1], v[1]), Mul(u[2], v[2]), Mul(u[3], v[3])>>

\* operator/(vec3 v, double t): (1/t) * v
VDiv(v, t) == VScale(Div(Unit, t), v)

dot(u, v) == Mul(u[1], v[1]) + Mul(u[2], v[2]) + Mul(u[3], v[3])

length_squared(v) == dot(v, v)

\* vec3::near_zero.  The threshold s = 1e-8 lies strictly between 0 and one step
\* of the model, so fabs(e) < s is e = 0.  The middle test is written
\* fabs(e[1] < s) in the source: the comparison is made first and fabs is applied
\* to its truth value, so that test is e[1] < s, which is e[1] <= 0.
near_zero(v) == v[1] = 0 /\ v[2] <= 0 /\ v[3] = 0

\* reflect: v - 2*dot(v,n)*n
reflect(v, n) == VSub(v, VScale(2 * dot(v, n), n))

\* fmin
fmin(x, y) == IF x < y THEN x ELSE y

\* refract
refract(uv, n, etai_over_etat) ==
    LET cos_theta == fmin(dot(VNeg(uv), n), Unit)
        r_out_parallel(r_out_perp) ==
            VScale(-Sqrt(Abs(Unit - length_squared(r_out_perp))), n)
        sum(r_out_perp) == VAdd(r_out_perp, r_out_parallel(r_out_perp))
    IN  sum(VScale(etai_over_etat, VAdd(uv, VScale(cos_theta, n))))

RECURSIVE Pow2(_)
Pow2(k) == IF k = 0 THEN 1 ELSE 2 * Pow2(k - 1)

RECURSIVE FloatExp(_, _)
\* The binary exponent e of the positive value n/Unit: 2^e <= n/Unit < 2^(e+1),
\* searched upward from e
FloatExp(n, e) ==
    IF e >= 0
    THEN IF n < Unit * Pow2(e + 1) THEN e ELSE FloatExp(n, e + 1)
    ELSE IF n * Pow2(-e - 1) < Unit THEN e ELSE FloatExp(n, e + 1)

\* The bits of the float n/Unit > 0 read as an integer: biased exponent above a
\* 23-bit mantissa (of which the model computes the leading 20 bits).
FloatBits(n) ==
    LET m(e) == IF e >= 0 THEN (n * Pow2(20 - e)) \div Unit
                ELSE (n * Pow2(-e) * Pow2(20)) \div Unit
        bits(e) == (e + 127) * Pow2(23) + (m(e) - Pow2(20)) * 8
    IN  bits(FloatExp(n, -10))

\* The positive float with bits b, as a value of the model
FloatOfBits(b) ==
    LET value(E, M) ==
            IF E - 127 >= 13 THEN RoundDiv(M * Unit * Pow2(E - 140), 1)
            ELSE RoundDiv(M * Unit, Pow2(140 - E))
    IN  value(b \div Pow2(23), (Pow2(23) + (b % Pow2(23))) \div Pow2(10))

\* The literal 0x5f3759df
QsqrtMagic == 1597463007

\* The values the bit above the float can take where `long i` is read through
\* (long *) &y.  Where long has 32 bits there is no such bit (0).  Where long has
\* 64 bits the read takes 4 bytes beyond y; the lowest of their bits is shifted
\* into bit 31 of i >> 1, and the float read back from i has its sign bit set.
LongHighBits == {0, 1}

\* Qsqrt: the bit-level first guess, then two Newton steps.  g is the bit read
\* from beyond the float.  Qsqrt(0) is a large finite number.
Qsqrt(t, g) ==
    LET x2 == Mul(t, Unit \div 2)
        threehalfs == Unit + Unit \div 2
        guess(i) == FloatOfBits(QsqrtMagic - (i \div 2))
        signed(y) == IF g = 1 THEN -y ELSE y
        newton(y) == Mul(y, threehalfs - Mul(x2, Mul(y, y)))
    IN  IF t > 0 THEN newton(newton(signed(guess(FloatBits(t))))) ELSE Unit * Unit

\* unit_vectorQ
unit_vectorQ(v, g) == VScale(Qsqrt(length_squared(v), g), v)

----------------------------------------------------------------------------
(* ray.h, interval.h *)

\* ray::at
at(ray, t) == VAdd(ray.orig, VScale(t, ray.dir))

\* Mutant of surrounds: the closed test of interval::contains
surrounds_closed(iv, x) == x >= iv.min /\ x <= iv.max

\* interval::surrounds
surrounds(iv, x) == x > iv.min /\ x < iv.max

\* interval::clamp
clamp(iv, x) == IF x < iv.min THEN iv.min ELSE IF x > iv.max THEN iv.max ELSE x

----------------------------------------------------------------------------
(* hittableObject.h *)

\* Mutant of set_face_normal: the outward normal is stored as it is
set_face_normal_outward(h, ray, outward_normal) ==
    [h EXCEPT !.frontfacing = dot(ray.dir, outward_normal) < 0, !.normal = outward_normal]

\* hit_record::set_face_normal: the record with frontfacing and normal set
set_face_normal(h, ray, outward_normal) ==
    LET ff == dot(ray.dir, outward_normal) < 0
    IN  [h EXCEPT !.frontfacing = ff,
                  !.normal = IF ff THEN outward_normal ELSE VNeg(outward_normal)]

----------------------------------------------------------------------------
(* sphere.h *)

\* Mutant of sphere_root: the larger root is tried first
sphere_root_larger_first(sp, ray, iv) ==
    LET pick(root1, root2) ==
            IF surrounds(iv, root2) THEN [ok |-> TRUE, root |-> root2]
            ELSE IF surrounds(iv, root1) THEN [ok |-> TRUE, root |-> root1]
            ELSE [ok |-> FALSE, root |-> 0]
        roots(a, half_b, d_sqrt) ==
            pick(Div(-half_b - d_sqrt, a), Div(-half_b + d_sqrt, a))
        solve(a, half_b, discriminant) ==
            IF discriminant < 0 \/ a = 0 THEN [ok |-> FALSE, root |-> 0]
            ELSE roots(a, half_b, Sqrt(discriminant))
        quadratic(a, half_b, c) == solve(a, half_b, Mul(half_b, half_b) - Mul(a, c))
        from(oc) ==
            quadratic(length_squared(ray.dir), dot(ray.dir, oc),
                      length_squared(oc) - Mul(sp.radius, sp.radius))
    IN  from(VSub(ray.orig, sp.center))

\* The root sphere::hit settles on, as [ok, root]; ok = FALSE is `return false`.
\* With a = 0 (a zero direction) both roots are NaN or infinite in the source and
\* surrounds() rejects them.
sphere_root(sp, ray, iv) ==
    LET pick(root1, root2) ==
            IF surrounds(iv, root1) THEN [ok |-> TRUE, root |-> root1]
            ELSE IF surrounds(iv, root2) THEN [ok |-> TRUE, root |-> root2]
            ELSE [ok |-> FALSE, root |-> 0]
        roots(a, half_b, d_sqrt) ==
            pick(Div(-half_b - d_sqrt, a), Div(-half_b + d_sqrt, a))
        solve(a, half_b, discriminant) ==
            IF discriminant < 0 \/ a = 0 THEN [ok |-> FALSE, root |-> 0]
            ELSE roots(a, half_b, Sqrt(discriminant))
        quadratic(a, half_b, c) == solve(a, half_b, Mul(half_b, half_b) - Mul(a, c))
        from(oc) ==
            quadratic(length_squared(ray.dir), dot(ray.dir, oc),
                      length_squared(oc) - Mul(sp.radius, sp.radius))
    IN  from(VSub(ray.orig, sp.center))

\* sphere::hit: [hit |-> the return value, rec |-> the record afterwards]
sphere_hit(sp, ray, iv, h) ==
    LET record(root, p) ==
            [set_face_normal([h EXCEPT !.t = root, !.p = p], ray,
                             VDiv(VSub(p, sp.center), sp.radius))
                EXCEPT !.mat = sp.mat]
        outcome(sr) ==
            IF ~sr.ok THEN [hit |-> FALSE, rec |-> h]
            ELSE [hit |-> TRUE, rec |-> record(sr.root, at(ray, sr.root))]
    IN  outcome(sphere_root(sp, ray, iv))

----------------------------------------------------------------------------
(* hittable_list.h *)

\* Mutant of hit_loop_body: a member as close as the closest so far is accepted
hit_loop_body_ties_replace(st, obj, ray, iv) ==
    LET update(res) ==
            IF res.hit
            THEN [tmp |-> res.rec, hit_anything |-> TRUE,
                  closest_so_far |-> res.rec.t, rec |-> res.rec]
            ELSE [st EXCEPT !.tmp = res.rec]
    IN  update(sphere_hit(obj, ray, [min |-> iv.min, max |-> st.closest_so_far + 1], st.tmp))

\* Mutant of hit_loop_body: every member is asked over the whole interval
hit_loop_body_no_shrink(st, obj, ray, iv) ==
    LET update(res) ==
            IF res.hit
            THEN [tmp |-> res.rec, hit_anything |-> TRUE,
                  closest_so_far |-> res.rec.t, rec |-> res.rec]
            ELSE [st EXCEPT !.tmp = res.rec]
    IN  update(sphere_hit(obj, ray, iv, st.tmp))

\* Mutant of hit_loop_body: rec = tmp is done after every member, hit or not
hit_loop_body_always_copies(st, obj, ray, iv) ==
    LET update(res) ==
            [tmp |-> res.rec, hit_anything |-> st.hit_anything \/ res.hit,
             closest_so_far |-> IF res.hit THEN res.rec.t ELSE st.closest_so_far,
             rec |-> res.rec]
    IN  update(sphere_hit(obj, ray, [min |-> iv.min, max |-> st.closest_so_far], st.tmp))

\* One pass of the for loop's body over member obj.  st holds the locals tmp,
\* hit_anything, closest_so_far and the caller's rec.
hit_loop_body(st, obj, ray, iv) ==
    LET update(res) ==
            IF res.hit
            THEN [tmp |-> res.rec, hit_anything |-> TRUE,
                  closest_so_far |-> res.rec.t, rec |-> res.rec]
            ELSE [st EXCEPT !.tmp = res.rec]
    IN  update(sphere_hit(obj, ray, [min |-> iv.min, max |-> st.closest_so_far], st.tmp))

\* The locals of hittable_list::hit before the loop
hit_locals(iv, h, t0) ==
    [tmp |-> t0, hit_anything |-> FALSE, closest_so_far |-> iv.max, rec |-> h]

RECURSIVE hit_loop(_, _, _, _, _)
\* The for loop from member k on
hit_loop(objs, k, st, ray, iv) ==
    IF k > Len(objs) THEN st
    ELSE hit_loop(objs, k + 1, hit_loop_body(st, objs[k], ray, iv), ray, iv)

\* hittable_list::hit as a whole: [hit |-> the return value, rec |-> the caller's
\* record afterwards].  t0 is the uninitialised local tmp.
hittable_list_hit(objs, ray, iv, h, t0) ==
    LET result(st) == [hit |-> st.hit_anything, rec |-> st.rec]
    IN  result(hit_loop(objs, 1, hit_locals(iv, h, t0), ray, iv))

----------------------------------------------------------------------------
(* rtweekend.h: random_double; vec3.h: the random vectors *)

\* Values random_double() can return: uniform in [0, 1)
RandomDoubles == { 0, Unit \div 2, Unit - 1 }

\* Points vec3::random(-1,1) can return, components in [-1, 1)
RandomPoints ==
    { <<500, 0, 0>>, <<0, 500, 0>>, <<0, -500, 0>>, <<0, 0, 500>>, <<0, 0, -500>>,
      <<0, 0, 0>>, <<900, 900, 900>> }

\* random_in_unit_sphere: the points the loop can return are those it accepts
random_in_unit_sphere == { p \in RandomPoints : length_squared(p) < Unit }

\* random_unit_vector: unit_vectorQ(random_in_unit_sphere())
random_unit_vector == { unit_vectorQ(p, g) : p \in random_in_unit_sphere, g \in LongHighBits }

----------------------------------------------------------------------------
(* material.h *)

\* Mutant of metal: the argument is stored as it is
metal_unclamped(a, f) == [kind |-> "metal", albedo |-> a, fuzz |-> f]

\* metal::metal: fuzz(f < 1 ? f : 1)
metal(a, f) == [kind |-> "metal", albedo |-> a, fuzz |-> IF f < Unit THEN f ELSE Unit]

\* lambertian::lambertian
lambertian(a) == [kind |-> "lambertian", albedo |-> a]

\* dielectric::dielectric
dielectric(ir_) == [kind |-> "dielectric", ir |-> ir_]

\* The materials of the scenes, by the name the model gives each shared_ptr
Materials ==
    [ ground |-> lambertian(<<500, 500, 500>>),
      steel |-> metal(<<700, 600, 500>>, 0),
      brushed |-> metal(<<800, 800, 800>>, Unit + Unit \div 2),
      glass |-> dielectric(Unit + Unit \div 2) ]

\* The result of a scatter call: the return value, the two out parameters as the
\* call leaves them, and what the call went through.
ScatterResult(ok, att, sc, tr) ==
    [ok |-> ok, attenuation |-> att, scattered |-> sc, trace |-> tr]

\* Mutant of lambertian_scatter: the draw is compared with probability 0.5
lambertian_scatter_half(m, ray, h, att0, sc0, d, ruv) ==
    IF d < Unit \div 2
    THEN LET sum == VAdd(h.normal, ruv)
             scatter_dir == IF near_zero(sum) THEN h.normal ELSE sum
         IN  ScatterResult(TRUE, VDiv(m.albedo, Unit), [orig |-> h.p, dir |-> scatter_dir],
                           [branch |-> "scatter", sum |-> sum])
    ELSE ScatterResult(FALSE, att0, sc0, [branch |-> "absorb"])

\* Mutant of lambertian_scatter: no fallback to the normal
lambertian_scatter_no_fallback(m, ray, h, att0, sc0, d, ruv) ==
    IF d < Unit
    THEN ScatterResult(TRUE, VDiv(m.albedo, Unit), [orig |-> h.p, dir |-> VAdd(h.normal, ruv)],
                       [branch |-> "scatter", sum |-> VAdd(h.normal, ruv)])
    ELSE ScatterResult(FALSE, att0, sc0, [branch |-> "absorb"])

\* lambertian::scatter.  d is the does_it_scatter draw, ruv the random unit vector;
\* att0 and sc0 are the out parameters as passed in.
lambertian_scatter(m, ray, h, att0, sc0, d, ruv) ==
    IF d < Unit
    THEN LET sum == VAdd(h.normal, ruv)
             scatter_dir == IF near_zero(sum) THEN h.normal ELSE sum
         IN  ScatterResult(TRUE, VDiv(m.albedo, Unit), [orig |-> h.p, dir |-> scatter_dir],
                           [branch |-> "scatter", sum |-> sum])
    ELSE ScatterResult(FALSE, att0, sc0, [branch |-> "absorb"])

\* Mutant of metal_scatter: the test is >= 0
metal_scatter_nonstrict(m, ray, h, att0, sc0, d, ruv, g) ==
    IF d < Unit
    THEN LET result(reflected, sc) ==
                 ScatterResult(dot(sc.dir, h.normal) >= 0, VDiv(m.albedo, Unit), sc,
                               [branch |-> "scatter", reflected |-> reflected, ruv |-> ruv])
             fuzzed(reflected) ==
                 result(reflected, [orig |-> h.p, dir |-> VAdd(reflected, VScale(m.fuzz, ruv))])
         IN  fuzzed(reflect(unit_vectorQ(ray.dir, g), h.normal))
    ELSE ScatterResult(FALSE, att0, sc0, [branch |-> "absorb"])

\* metal::scatter.  g is the bit Qsqrt reads beyond its float.
metal_scatter(m, ray, h, att0, sc0, d, ruv, g) ==
    IF d < Unit
    THEN LET result(reflected, sc) ==
                 ScatterResult(dot(sc.dir, h.normal) > 0, VDiv(m.albedo, Unit), sc,
                               [branch |-> "scatter", reflected |-> reflected, ruv |-> ruv])
             fuzzed(reflected) ==
                 result(reflected, [orig |-> h.p, dir |-> VAdd(reflected, VScale(m.fuzz, ruv))])
         IN  fuzzed(reflect(unit_vectorQ(ray.dir, g), h.normal))
    ELSE ScatterResult(FALSE, att0, sc0, [branch |-> "absorb"])

\* pow(x, 5)
Pow5(x) == Mul(Mul(Mul(Mul(x, x), x), x), x)

\* dielectric::reflectance (Schlick)
reflectance(cosine, ref_idx) ==
    LET schlick(r0) == r0 + Mul(Unit - r0, Pow5(Unit - cosine))
        squared(q) == schlick(Mul(q, q))
    IN  squared(Div(Unit - ref_idx, Unit + ref_idx))

\* Mutant of dielectric_reflects: only the reflectance decides
dielectric_reflects_no_tir(cannot_refract, refl, d) == refl > d

\* if (cannot_refract || reflectance(cos_theta, refraction_ratio) > random_double())
dielectric_reflects(cannot_refract, refl, d) == cannot_refract \/ refl > d

\* dielectric::scatter.  d is the random_double() draw the reflectance is compared
\* with.  sqrt of a negative number is NaN, and NaN > 1.0 is false.
dielectric_scatter(m, ray, h, att0, sc0, d, g) ==
    LET refraction_ratio == IF h.frontfacing THEN Div(Unit, m.ir) ELSE m.ir
        result(unit_direction, sin_is_nan, ratio_sin, refl, reflects) ==
            ScatterResult(TRUE, V(1,1,1),
                          [orig |-> h.p,
                           dir |-> IF reflects THEN reflect(unit_direction, h.normal)
                                   ELSE refract(unit_direction, h.normal, refraction_ratio)],
                          [branch |-> IF reflects THEN "reflect" ELSE "refract",
                           unit_direction |-> unit_direction,
                           sin_is_nan |-> sin_is_nan,
                           ratio_sin |-> ratio_sin,
                           reflectance |-> refl,
                           draw |-> d])
        decide(unit_direction, sin_is_nan, ratio_sin, refl) ==
            result(unit_direction, sin_is_nan, ratio_sin, refl,
                   dielectric_reflects(~sin_is_nan /\ ratio_sin > Unit, refl, d))
        sines(unit_direction, cos_theta, radicand) ==
            decide(unit_direction, radicand < 0,
                   Mul(refraction_ratio, IF radicand < 0 THEN 0 ELSE Sqrt(radicand)),
                   reflectance(cos_theta, refraction_ratio))
        cosines(unit_direction, cos_theta) ==
            sines(unit_direction, cos_theta, Unit - Mul(cos_theta, cos_theta))
        incoming(unit_direction) ==
            cosines(unit_direction, fmin(dot(VNeg(unit_direction), h.normal), Unit))
    IN  incoming(unit_vectorQ(ray.dir, g))

\* The results rec.mat->scatter(r, rec, attenuation, scattered) can have, over
\* every value of the random draws it makes
scatter_outcomes(m, ray, h, att0, sc0) ==
    IF m.kind = "lambertian"
    THEN { lambertian_scatter(m, ray, h, att0, sc0, d, ruv) :
             d \in RandomDoubles, ruv \in random_unit_vector }
    ELSE IF m.kind = "metal"
    THEN UNION { { metal_scatter(m, ray, h, att0, sc0, d, ruv, g) :
                     d \in RandomDoubles, ruv \in random_unit_vector } : g \in LongHighBits }
    ELSE { dielectric_scatter(m, ray, h, att0, sc0, d, g) :
             d \in RandomDoubles, g \in LongHighBits }

----------------------------------------------------------------------------
(* Inputs of the intersection model *)

\* Largest number of members of a list
MaxObjects == 2

\* A default-constructed hit_record: p and normal are vec3() = (0,0,0), mat is a
\* null pointer, t and frontfacing are uninitialised.
FreshRecords ==
    { [p |-> V(0,0,0), t |-> t0, normal |-> V(0,0,0), frontfacing |-> ff, mat |-> "null"] :
        t0 \in {0, 7 * Unit}, ff \in {FALSE} }

\* A record a caller may pass in: fresh, or filled by an earlier hit.
CallerRecords ==
    { h \in FreshRecords : h.t = 0 } \cup
    { [p |-> V(0,0,-9), t |-> 9 * Unit, normal |-> V(0,0,1), frontfacing |-> TRUE, mat |-> "ground"] }

Origins == { V(0,0,0), <<0, 500, 3000>> }

\* Directions need not be unit length.
Directions == { V(0,0,-1), V(0,0,1), V(0,0,-2), <<0, 600, -800>> }

Rays == { [orig |-> o, dir |-> d] : o \in Origins, d \in Directions }

MaterialIds == DOMAIN Materials

Spheres ==
    { [center |-> V(0,0,-2), radius |-> Unit, mat |-> "ground"],
      [center |-> V(0,0,-2), radius |-> Unit, mat |-> "steel"],
      [center |-> V(0,0,0), radius |-> 2 * Unit, mat |-> "glass"],
      [center |-> V(0,0,-1), radius |-> Unit, mat |-> "steel"],
      [center |-> V(0,1,-2), radius |-> Unit, mat |-> "ground"],
      [center |-> V(0,0,-4), radius |-> 3 * Unit, mat |-> "glass"] }

Intervals ==
    { [min |-> lo, max |-> hi] :
        lo \in {0, 1, 2 * Unit}, hi \in {Unit, 3 * Unit, infinity} }

\* Every list of at most MaxObjects spheres, in every order
SceneLists == UNION { [1..n -> Spheres] : n \in 0..MaxObjects }

\* color attenuation; and ray scattered; as ray_color declares them
FreshColor == V(0,0,0)

FreshRay == [orig |-> V(0,0,0), dir |-> V(0,0,0)]

----------------------------------------------------------------------------
(* color.h *)

\* linear_to_gamma
linear_to_gamma(linear_component) == Sqrt(linear_component)

\* Mutant of ToInt: the double is rounded to the nearest integer
ToInt_rounds(x) == (x + Unit \div 2) \div Unit

\* static_cast<int> of a double that is not negative
ToInt(x) == x \div Unit

\* Mutant of write_color: the intensity interval ends at 1.999
write_color_wide_intensity(color, samples_per_pixel) ==
    LET scale == Div(Unit, samples_per_pixel * Unit)
        intensity == [min |-> 0, max |-> 2 * Unit - 1]
        channel(c) == ToInt(Mul(255 * Unit + (Unit - 1),
                                clamp(intensity, linear_to_gamma(Mul(c, scale)))))
    IN  <<channel(color[1]), channel(color[2]), channel(color[3])>>

\* write_color: the three integers written for one pixel
write_color(color, samples_per_pixel) ==
    LET scale == Div(Unit, samples_per_pixel * Unit)
        intensity == [min |-> 0, max |-> Unit - 1]
        channel(c) == ToInt(Mul(255 * Unit + (Unit - 1),
                                clamp(intensity, linear_to_gamma(Mul(c, scale)))))
    IN  <<channel(color[1]), channel(color[2]), channel(color[3])>>

----------------------------------------------------------------------------
(* camera.h *)

\* tan(degrees_to_radians(deg)) for the angles the cameras of the model use
tan_degrees(deg) == IF deg = 0 THEN 0 ELSE Unit

\* cross
cross(u, v) ==
    <<Mul(u[2], v[3]) - Mul(u[3], v[2]),
      Mul(u[3], v[1]) - Mul(u[1], v[3]),
      Mul(u[1], v[2]) - Mul(u[2], v[1])>>

\* vec3::length
length(v) == Sqrt(length_squared(v))

\* unit_vector
unit_vector(v) == VDiv(v, length(v))

\* camera::initialize: the camera with its private fields set
initialize(c) ==
    LET fields(image_height, viewport_height, viewport_width, w, u, v) ==
            LET camera_origin == c.lookfrom
                viewport_u == VScale(viewport_width, u)
                viewport_v == VScale(viewport_height, VNeg(v))
                pixel_delta_u == VDiv(viewport_u, c.image_width * Unit)
                pixel_delta_v == VDiv(viewport_v, image_height * Unit)
                upper_left_corner ==
                    VSub(VSub(VSub(camera_origin, VScale(c.focus_dist, w)),
                              VDiv(viewport_u, 2 * Unit)),
                         VDiv(viewport_v, 2 * Unit))
                defocus_radius == Mul(c.focus_dist, tan_degrees(c.defocus_angle \div 2))
            IN  [ aspect_ratio |-> c.aspect_ratio, image_width |-> c.image_width,
                  samples_per_pixel |-> c.samples_per_pixel, max_depth |-> c.max_depth,
                  vfov |-> c.vfov, lookfrom |-> c.lookfrom, lookat |-> c.lookat,
                  vup |-> c.vup,
                  defocus_angle |-> c.defocus_angle, focus_dist |-> c.focus_dist,
                  image_height |-> image_height,
                  camera_origin |-> camera_origin,
                  pixel00_loc |-> VAdd(upper_left_corner,
                                       VScale(Unit \div 2, VAdd(pixel_delta_u, pixel_delta_v))),
                  pixel_delta_u |-> pixel_delta_u,
                  pixel_delta_v |-> pixel_delta_v,
                  u |-> u, v |-> v, w |-> w,
                  defocus_disk_u |-> VScale(defocus_radius, u),
                  defocus_disk_v |-> VScale(defocus_radius, v) ]
        basis(image_height, viewport_height, w, u) ==
            fields(image_height, viewport_height,
                   Mul(viewport_height, Div(c.image_width * Unit, image_height * Unit)),
                   w, u, cross(w, u))
        viewport(image_height, h, w) ==
            basis(image_height, Mul(Mul(2 * Unit, h), c.focus_dist), w,
                  unit_vector(cross(c.vup, w)))
        sized(h0) ==
            viewport(IF h0 < 1 THEN 1 ELSE h0, tan_degrees(c.vfov \div 2),
                     unit_vector(VSub(c.lookfrom, c.lookat)))
    IN  sized(ToInt(Div(c.image_width * Unit, c.aspect_ratio)))

\* Values of the random_double() calls behind random_in_unit_disk: with the first
\* of them a candidate lies outside the disk and the loop draws again
DiskDoubles == { 0, (3 * Unit) \div 4 }

\* random_double(min, max), over the values draws of random_double()
random_double_in(lo, hi, draws) == { lo + Mul(hi - lo, d) : d \in draws }

\* random_in_unit_disk: the points the loop can return are those it accepts
random_in_unit_disk ==
    { p \in { <<x, y, 0>> : x, y \in random_double_in(-Unit, Unit, DiskDoubles) } :
        length_squared(p) < Unit }

\* Values of the two random_double() calls of pixel_sample_square
SampleDoubles == { 0, Unit \div 2 }

\* camera::pixel_sample_square
pixel_sample_square(c) ==
    { VAdd(VScale(-(Unit \div 2) + dx, c.pixel_delta_u),
           VScale(-(Unit \div 2) + dy, c.pixel_delta_v)) : dx, dy \in SampleDoubles }

\* camera::defocus_disk_sample
defocus_disk_sample(c) ==
    { VAdd(VAdd(c.camera_origin, VScale(p[1], c.defocus_disk_u)), VScale(p[2], c.defocus_disk_v)) :
        p \in random_in_unit_disk }

\* camera::get_ray: the rays it can return for pixel (pi, pj)
get_ray(c, pi, pj) ==
    LET rays(curr_pixel_center, origins) ==
            { [orig |-> ray_origin, dir |-> VSub(VAdd(curr_pixel_center, sq), ray_origin)] :
                sq \in pixel_sample_square(c), ray_origin \in origins }
    IN  rays(VAdd(VAdd(c.pixel00_loc, VScale(pi * Unit, c.pixel_delta_u)),
                  VScale(pj * Unit, c.pixel_delta_v)),
             IF c.defocus_angle <= 0 THEN {c.camera_origin} ELSE defocus_disk_sample(c))

\* hit_record rec; of ray_color, and hit_record tmp; of the list it asks: no field
\* of either is read before sphere::hit has written all of them.
FreshRecord == CHOOSE h \in FreshRecords : h.t = 0

\* The last three lines of ray_color: the background for a ray that hits nothing
background(ray, g) ==
    LET blend(a) == VAdd(VScale(Unit - a, V(1,1,1)), VScale(a, <<500, 700, 1000>>))
        height(unit_dir) == blend(Mul(Unit \div 2, unit_dir[2] + Unit))
    IN  height(unit_vectorQ(ray.dir, g))

\* Mutant of depth_exhausted: depth 0 still bounces
depth_exhausted_below_zero(depth) == depth < 0

\* if (depth <= 0)
depth_exhausted(depth) == depth <= 0

\* Mutant of ray_color_step: the product with the attenuation is left out
ray_color_step_unattenuated(ray, depth, objs) ==
    IF depth_exhausted(depth) THEN { [kind |-> "return", color |-> V(0,0,0)] }
    ELSE LET after(res) ==
                 IF res.hit
                 THEN { IF sc.ok
                        THEN [kind |-> "call", attenuation |-> V(1,1,1),
                              ray |-> sc.scattered, depth |-> depth - 1]
                        ELSE [kind |-> "return", color |-> V(0,0,0)] :
                          sc \in scatter_outcomes(Materials[res.rec.mat], ray, res.rec,
                                                  FreshColor, FreshRay) }
                 ELSE { [kind |-> "return", color |-> background(ray, g)] :
                          g \in LongHighBits }
         IN  after(hittable_list_hit(objs, ray, [min |-> 1, max |-> infinity],
                                     FreshRecord, FreshRecord))

\* What one activation of ray_color can do: return a colour, or call itself on
\* the scattered ray with depth - 1 and an attenuation to multiply the result by.
ray_color_step(ray, depth, objs) ==
    IF depth_exhausted(depth) THEN { [kind |-> "return", color |-> V(0,0,0)] }
    ELSE LET after(res) ==
                 IF res.hit
                 THEN { IF sc.ok
                        THEN [kind |-> "call", attenuation |-> sc.attenuation,
                              ray |-> sc.scattered, depth |-> depth - 1]
                        ELSE [kind |-> "return", color |-> V(0,0,0)] :
                          sc \in scatter_outcomes(Materials[res.rec.mat], ray, res.rec,
                                                  FreshColor, FreshRay) }
                 ELSE { [kind |-> "return", color |-> background(ray, g)] :
                          g \in LongHighBits }
         IN  after(hittable_list_hit(objs, ray, [min |-> 1, max |-> infinity],
                                     FreshRecord, FreshRecord))

RECURSIVE ray_color(_, _, _)
\* camera::ray_color: the colours the call can return
ray_color(ray, depth, objs) ==
    UNION { IF o.kind = "return" THEN {o.color}
            ELSE { VMul(o.attenuation, c) : c \in ray_color(o.ray, o.depth, objs) } :
              o \in ray_color_step(ray, depth, objs) }

----------------------------------------------------------------------------
(* The variables of the parts a specification leaves out *)

ScatterIdle ==
    /\ pcS = "idle"
    /\ mat = "null"
    /\ r_in = FreshRay
    /\ hrec \in { h \in FreshRecords : h.t = 0 }
    /\ attenuation = FreshColor
    /\ scattered = FreshRay
    /\ scatter_ret = FALSE
    /\ trace = [branch |-> "none"]

HitIdle ==
    /\ pcH = "idle"
    /\ r = FreshRay
    /\ ray_t = [min |-> 1, max |-> infinity]
    /\ scene_objects = <<>>
    /\ idx = 0
    /\ tmp \in { h \in FreshRecords : h.t = 0 }
    /\ hit_anything = FALSE
    /\ closest_so_far = infinity
    /\ rec = tmp
    /\ rec0 = tmp
    /\ last_call = [iv |-> ray_t, hit |-> FALSE]

NoSample == [pi |-> -1, pj |-> -1, depth |-> 0]

ColorIdle ==
    /\ pcC = "idle"
    /\ depth0 = 0
    /\ stack = <<>>
    /\ retval = <<>>

RenderIdle ==
    /\ pcR = "idle"
    /\ cam = [image_width |-> 0]
    /\ loop_j = 0
    /\ loop_i = 0
    /\ loop_s = 0
    /\ pixel_color = FreshColor
    /\ out = <<>>
    /\ emitted = <<>>
    /\ n_acc = 0
    /\ last_sample = NoSample

CallIdle ==
    /\ pcK = "idle"
    /\ fn = "none"
    /\ fn_arg = <<>>
    /\ fn_ret = <<>>

----------------------------------------------------------------------------
(* hittable_list::hit, member by member *)

HitInit ==
    /\ pcH = "loop"
    /\ r \in Rays
    /\ ray_t \in Intervals
    /\ scene_objects \in SceneLists
    /\ idx = 0
    /\ tmp \in FreshRecords
    /\ hit_anything = FALSE
    /\ closest_so_far = ray_t.max
    /\ rec \in CallerRecords
    /\ rec0 = rec
    /\ last_call = [iv |-> ray_t, hit |-> FALSE]
    /\ ScatterIdle
    /\ ColorIdle
    /\ world = <<>>
    /\ RenderIdle
    /\ CallIdle

\* for (const auto& obj: scene_objects) { ... }: one member
HitIterate ==
    /\ pcH = "loop"
    /\ idx < Len(scene_objects)
    /\ \E st1 \in { hit_loop_body([tmp |-> tmp, hit_anything |-> hit_anything,
                                     closest_so_far |-> closest_so_far, rec |-> rec],
                                    scene_objects[idx + 1], r, ray_t) } :
          /\ tmp' = st1.tmp
          /\ hit_anything' = st1.hit_anything
          /\ closest_so_far' = st1.closest_so_far
          /\ rec' = st1.rec
    /\ last_call' = [iv |-> [min |-> ray_t.min, max |-> closest_so_far],
                     hit |-> sphere_hit(scene_objects[idx + 1], r,
                                        [min |-> ray_t.min, max |-> closest_so_far],
                                        tmp).hit]
    /\ idx' = idx + 1
    /\ UNCHANGED <<pcH, r, ray_t, scene_objects, rec0>>
    /\ UNCHANGED <<scatterVars, colorVars, world, renderVars, callVars>>

\* return hit_anything;
HitReturn ==
    /\ pcH = "loop"
    /\ idx = Len(scene_objects)
    /\ pcH' = "done"
    /\ UNCHANGED <<r, ray_t, scene_objects, idx, tmp, hit_anything, closest_so_far, rec,
                   rec0, last_call>>
    /\ UNCHANGED <<scatterVars, colorVars, world, renderVars, callVars>>

HitNext == HitIterate \/ HitReturn

SpecHit == HitInit /\ [][HitNext]_vars

----------------------------------------------------------------------------
(* material::scatter, called as ray_color calls it: on the record of a hit over
   (0.001, infinity), with freshly declared out parameters *)

\* interval(0.001, infinity) of ray_color
RayColorInterval == [min |-> 1, max |-> infinity]

ScatterOrigins == Origins \cup { <<0, 1500, 0>> }

ScatterRays == { [orig |-> o, dir |-> d] : o \in ScatterOrigins, d \in Directions }

ScatterInit ==
    /\ pcS = "call"
    /\ r_in \in ScatterRays
    /\ mat \in MaterialIds
    /\ \E sp \in Spheres, h \in FreshRecords :
          \E res \in { sphere_hit([sp EXCEPT !.mat = mat], r_in, RayColorInterval, h) } :
             res.hit /\ hrec = res.rec
    /\ attenuation = FreshColor
    /\ scattered = FreshRay
    /\ scatter_ret = FALSE
    /\ trace = [branch |-> "none"]
    /\ HitIdle
    /\ ColorIdle
    /\ world = <<>>
    /\ RenderIdle
    /\ CallIdle

\* rec.mat->scatter(r, rec, attenuation, scattered)
Scatter ==
    /\ pcS = "call"
    /\ \E res \in scatter_outcomes(Materials[mat], r_in, hrec, attenuation, scattered) :
          /\ scatter_ret' = res.ok
          /\ attenuation' = res.attenuation
          /\ scattered' = res.scattered
          /\ trace' = res.trace
    /\ pcS' = "returned"
    /\ UNCHANGED <<mat, r_in, hrec>>
    /\ UNCHANGED <<hitVars, colorVars, world, renderVars, callVars>>

ScatterNext == Scatter

SpecScatter == ScatterInit /\ [][ScatterNext]_vars

----------------------------------------------------------------------------
(* Scenes of the integrator and the renderer *)

\* A sphere around the origin that encloses the camera and every ray origin
Shell(m) == [center |-> V(0,0,0), radius |-> 3 * Unit, mat |-> m]

\* A sphere in front of the camera
Ball(m) == [center |-> V(0,0,1), radius |-> Unit \div 2, mat |-> m]

Worlds ==
    { <<>>, <<Shell("ground")>>, <<Shell("steel")>>, <<Ball("glass"), Shell("brushed")>>,
      <<Ball("ground")>> }

----------------------------------------------------------------------------
(* camera::ray_color, activation by activation *)

\* Largest depth of a top-level call
MaxDepth == 2

Frame(ray, depth) == [ray |-> ray, depth |-> depth, attenuation |-> <<>>]

ColorInit ==
    /\ pcC = "run"
    /\ world \in Worlds
    /\ depth0 \in -1..MaxDepth
    /\ \E ray \in ScatterRays : stack = <<Frame(ray, depth0)>>
    /\ retval = <<>>
    /\ HitIdle
    /\ ScatterIdle
    /\ RenderIdle
    /\ CallIdle

Top == stack[Len(stack)]

Pop == SubSeq(stack, 1, Len(stack) - 1)

\* The innermost activation reaches one of its return statements without a call
\* of its own: depth <= 0, absorbed, or nothing hit.
RayColorReturn ==
    /\ pcC = "run"
    /\ stack # <<>>
    /\ Top.attenuation = <<>>
    /\ \E o \in ray_color_step(Top.ray, Top.depth, world) :
          /\ o.kind = "return"
          /\ retval' = o.color
    /\ stack' = Pop
    /\ UNCHANGED <<pcC, depth0, world, hitVars, scatterVars, renderVars, callVars>>

\* return attenuation * ray_color(scattered, depth - 1, world): the call
RayColorCall ==
    /\ pcC = "run"
    /\ stack # <<>>
    /\ Top.attenuation = <<>>
    /\ \E o \in ray_color_step(Top.ray, Top.depth, world) :
          /\ o.kind = "call"
          /\ stack' = Append([stack EXCEPT ![Len(stack)].attenuation = o.attenuation],
                             Frame(o.ray, o.depth))
    /\ UNCHANGED <<pcC, depth0, retval, world, hitVars, scatterVars, renderVars, callVars>>

\* return attenuation * ray_color(scattered, depth - 1, world): the product, once
\* the call has returned
RayColorResume ==
    /\ pcC = "run"
    /\ stack # <<>>
    /\ Top.attenuation # <<>>
    /\ retval # <<>>
    /\ stack' = Pop
    /\ retval' = VMul(Top.attenuation, retval)
    /\ UNCHANGED <<pcC, depth0, world, hitVars, scatterVars, renderVars, callVars>>

\* The top-level call has returned.
RayColorDone ==
    /\ pcC = "run"
    /\ stack = <<>>
    /\ pcC' = "done"
    /\ UNCHANGED <<depth0, stack, retval, world, hitVars, scatterVars, renderVars, callVars>>

ColorNext == RayColorReturn \/ RayColorCall \/ RayColorResume \/ RayColorDone

SpecRayColor == ColorInit /\ [][ColorNext]_vars

----------------------------------------------------------------------------
(* camera::render *)

\* Largest image_width and samples_per_pixel
MaxWidth == 2

MaxSamples == 2

\* max_depth of the cameras that render
RenderDepths == { -1, 0, 1 }

\* The public fields as the caller sets them before render(); angles in degrees
Cameras ==
    { [ aspect_ratio |-> ar, image_width |-> w, samples_per_pixel |-> n, max_depth |-> d,
        vfov |-> 90, lookfrom |-> V(0,0,-1), lookat |-> V(0,0,0), vup |-> V(0,1,0),
        defocus_angle |-> da, focus_dist |-> Unit ] :
        ar \in {Unit, 2 * Unit}, w \in 1..MaxWidth, n \in 1..MaxSamples,
        d \in RenderDepths, da \in {0, 90} }

RenderInit ==
    /\ pcR = "begin"
    /\ cam \in Cameras
    /\ world \in Worlds
    /\ loop_j = 0
    /\ loop_i = 0
    /\ loop_s = 0
    /\ pixel_color = FreshColor
    /\ out = <<>>
    /\ emitted = <<>>
    /\ n_acc = 0
    /\ last_sample = NoSample
    /\ HitIdle
    /\ ScatterIdle
    /\ ColorIdle
    /\ CallIdle

\* initialize(); the header; int j = 0
RenderBegin ==
    /\ pcR = "begin"
    /\ cam' = initialize(cam)
    /\ loop_j' = 0
    /\ pcR' = "row"
    /\ UNCHANGED <<loop_i, loop_s, pixel_color, out, n_acc, last_sample>>
    /\ emitted' = <<>>
    /\ UNCHANGED <<world, hitVars, scatterVars, colorVars, callVars>>

\* j < image_height: the row starts with int i = 0
RowEnter ==
    /\ pcR = "row"
    /\ loop_j < cam.image_height
    /\ loop_i' = 0
    /\ pcR' = "col"
    /\ UNCHANGED <<cam, loop_j, loop_s, pixel_color, out, n_acc, last_sample>>
    /\ emitted' = <<>>
    /\ UNCHANGED <<world, hitVars, scatterVars, colorVars, callVars>>

\* j >= image_height: render is over
RenderEnd ==
    /\ pcR = "row"
    /\ loop_j >= cam.image_height
    /\ pcR' = "done"
    /\ UNCHANGED <<cam, loop_j, loop_i, loop_s, pixel_color, out, n_acc, last_sample>>
    /\ emitted' = <<>>
    /\ UNCHANGED <<world, hitVars, scatterVars, colorVars, callVars>>

\* i < image_width: color pixel_color(0,0,0); int s = 0
PixelEnter ==
    /\ pcR = "col"
    /\ loop_i < cam.image_width
    /\ pixel_color' = V(0,0,0)
    /\ n_acc' = 0
    /\ loop_s' = 0
    /\ pcR' = "sample"
    /\ UNCHANGED <<cam, loop_j, loop_i, out, last_sample>>
    /\ emitted' = <<>>
    /\ UNCHANGED <<world, hitVars, scatterVars, colorVars, callVars>>

\* i >= image_width: ++j
RowLeave ==
    /\ pcR = "col"
    /\ loop_i >= cam.image_width
    /\ loop_j' = loop_j + 1
    /\ pcR' = "row"
    /\ UNCHANGED <<cam, loop_i, loop_s, pixel_color, out, n_acc, last_sample>>
    /\ emitted' = <<>>
    /\ UNCHANGED <<world, hitVars, scatterVars, colorVars, callVars>>

\* Mutant of sample_depth: one bounce more than configured
sample_depth_one_more(c) == c.max_depth + 1

\* The depth render passes to ray_color
sample_depth(c) == c.max_depth

\* Mutant of accumulate: pixel_color = ray_color(...) in place of +=
accumulate_overwrites(acc, c, pi, pj, objs) ==
    UNION { ray_color(ray, sample_depth(c), objs) : ray \in get_ray(c, pi, pj) }

\* The accumulator after one more sample: pixel_color += ray_color(r, max_depth, world)
accumulate(acc, c, pi, pj, objs) ==
    { VAdd(acc, col) : col \in UNION { ray_color(ray, sample_depth(c), objs) :
                                         ray \in get_ray(c, pi, pj) } }

\* Mutant of scene_after_sample: the list loses the member asked first
scene_after_sample_consumed(objs) ==
    IF objs = <<>> THEN objs ELSE SubSeq(objs, 2, Len(objs))

\* The scene after pixel_color += ray_color(get_ray(i, j), max_depth, world).
\* render, ray_color and hit take the world by const reference, hit and scatter
\* are const members, and sphere::hit copies its mat pointer into the record: no
\* statement under the sample assigns to the list, to a sphere or to a material.
scene_after_sample(objs) == objs

\* s < samples_per_pixel: one sample; ++s
Sample ==
    /\ pcR = "sample"
    /\ loop_s < cam.samples_per_pixel
    /\ pixel_color' \in accumulate(pixel_color, cam, loop_i, loop_j, world)
    /\ n_acc' = n_acc + 1
    /\ last_sample' = [pi |-> loop_i, pj |-> loop_j, depth |-> sample_depth(cam)]
    /\ loop_s' = loop_s + 1
    /\ UNCHANGED <<pcR, cam, loop_j, loop_i, out>>
    /\ emitted' = <<>>
    /\ world' = scene_after_sample(world)
    /\ UNCHANGED <<hitVars, scatterVars, colorVars, callVars>>

\* s >= samples_per_pixel: write_color(cout, pixel_color, samples_per_pixel); ++i
WritePixel ==
    /\ pcR = "sample"
    /\ loop_s >= cam.samples_per_pixel
    /\ emitted' = write_color(pixel_color, cam.samples_per_pixel)
    /\ out' = Append(out, <<loop_i, loop_j>>)
    /\ loop_i' = loop_i + 1
    /\ pcR' = "col"
    /\ UNCHANGED <<cam, loop_j, loop_s, pixel_color, n_acc, last_sample>>
    /\ UNCHANGED <<world, hitVars, scatterVars, colorVars, callVars>>

RenderNext ==
    RenderBegin \/ RowEnter \/ RenderEnd \/ PixelEnter \/ RowLeave \/ Sample \/ WritePixel

SpecRender == RenderInit /\ [][RenderNext]_vars

----------------------------------------------------------------------------
(* write_color, on accumulators of every size *)

\* Values a channel of an accumulator can hold: zero, one step, fractions, the
\* whole numbers up to the number of samples, and a value far beyond them
AccumulatedChannels ==
    { 0, 1, Unit \div 4, Unit - 1, 1000 * Unit } \cup { k * Unit : k \in 1..MaxSamples }

WriteInit ==
    /\ pcR = "write"
    /\ \E n \in 1..MaxSamples : cam = [image_width |-> 0, samples_per_pixel |-> n]
    /\ pixel_color \in { <<x, y, z>> : x, y, z \in AccumulatedChannels }
    /\ loop_j = 0
    /\ loop_i = 0
    /\ loop_s = cam.samples_per_pixel
    /\ out = <<>>
    /\ emitted = <<>>
    /\ n_acc = cam.samples_per_pixel
    /\ last_sample = NoSample
    /\ HitIdle
    /\ ScatterIdle
    /\ ColorIdle
    /\ world = <<>>
    /\ CallIdle

\* write_color(std::cout, pixel_color, samples_per_pixel)
WriteColor ==
    /\ pcR = "write"
    /\ emitted' = write_color(pixel_color, cam.samples_per_pixel)
    /\ pcR' = "written"
    /\ UNCHANGED <<cam, loop_j, loop_i, loop_s, pixel_color, out, n_acc, last_sample>>
    /\ UNCHANGED <<world, hitVars, scatterVars, colorVars, callVars>>

WriteNext == WriteColor

SpecWriteColor == WriteInit /\ [][WriteNext]_vars

----------------------------------------------------------------------------
(* Calls of vec3::near_zero and of metal::metal, on arguments of every sign *)

\* Components on both sides of zero, one step of the model and one unit away
SignedDoubles == { -Unit, -1, 0, 1, Unit }

\* The fuzz arguments main passes, random_double(0, 0.5) and 0.0, and arguments
\* on both sides of 0 and of 1
FuzzArguments ==
    random_double_in(0, Unit \div 2, RandomDoubles) \cup
    { -Unit, -1, 0, 1, Unit - 1, Unit, Unit + 1, 2 * Unit }

CallInit ==
    /\ pcK = "call"
    /\ \/ fn = "near_zero" /\ fn_arg \in { <<x, y, z>> : x, y, z \in SignedDoubles }
       \/ /\ fn = "metal"
          /\ fn_arg \in { [a |-> a, f |-> f] :
                            a \in { <<700, 600, 500>>, <<800, 800, 800>> },
                            f \in FuzzArguments }
    /\ fn_ret = <<>>
    /\ HitIdle
    /\ ScatterIdle
    /\ ColorIdle
    /\ world = <<>>
    /\ RenderIdle

\* v.near_zero()
NearZeroCall ==
    /\ pcK = "call"
    /\ fn = "near_zero"
    /\ fn_ret' = near_zero(fn_arg)
    /\ pcK' = "returned"
    /\ UNCHANGED <<fn, fn_arg, world, hitVars, scatterVars, colorVars, renderVars>>

\* make_shared<metal>(a, f)
MetalConstruct ==
    /\ pcK = "call"
    /\ fn = "metal"
    /\ fn_ret' = metal(fn_arg.a, fn_arg.f)
    /\ pcK' = "returned"
    /\ UNCHANGED <<fn, fn_arg, world, hitVars, scatterVars, colorVars, renderVars>>

CallNext == NearZeroCall \/ MetalConstruct

SpecCalls == CallInit /\ [][CallNext]_vars

----------------------------------------------------------------------------
(* Claims on the intersection model *)

\* The members that report a hit when asked alone over the whole query interval
MemberHits ==
    { k \in 1..Len(scene_objects) : sphere_hit(scene_objects[k], r, ray_t, tmp).hit }

\* The t member k records when asked alone over the whole query interval
MemberT(k) == sphere_hit(scene_objects[k], r, ray_t, tmp).rec.t

\* C1: hittable_list::hit returns true exactly when some member, asked alone over
\* the query interval, reports a hit, and the record it returns then carries the
\* least t among the members' own hits.
C1_NearestMember ==
    pcH = "done" =>
        /\ hit_anything <=> MemberHits # {}
        /\ hit_anything =>
               /\ \E k \in MemberHits : rec.t = MemberT(k)
               /\ \A k \in MemberHits : rec.t <= MemberT(k)

\* C1 witness: two members hit, and the one later in the list is strictly closer.
C1_Witness ==
    /\ pcH = "done"
    /\ \E j, k \in MemberHits : j < k /\ MemberT(k) < MemberT(j) /\ rec.t = MemberT(k)

\* The member the loop asked last, and the outward normal sphere::hit computes for
\* the point it recorded
LastMember == scene_objects[idx]

LastOutwardNormal == VDiv(VSub(tmp.p, LastMember.center), LastMember.radius)

\* C2: whenever sphere::hit returns true, the t it records lies strictly between
\* the bounds of the interval it was asked over, and the point it records is
\* ray.at(t).
C2_HitInsideInterval ==
    last_call.hit =>
        /\ tmp.t > last_call.iv.min
        /\ tmp.t < last_call.iv.max
        /\ tmp.p = VAdd(r.orig, VScale(tmp.t, r.dir))

\* C2 witness: a hit over an interval bounded on both sides, where the sphere's
\* nearer crossing lies at or below the lower bound and the farther one is taken.
C2_Witness ==
    /\ last_call.hit
    /\ last_call.iv.max < infinity
    /\ sphere_root(LastMember, r, [min |-> 0 - infinity, max |-> infinity]).root
           <= last_call.iv.min

\* C3: every hit sphere::hit reports, front face or back face, records a normal
\* with dot(ray.direction, normal) <= 0: the outward normal when
\* dot(direction, outward_normal) < 0, its negation otherwise.
C3_NormalAgainstRay ==
    last_call.hit =>
        /\ dot(r.dir, tmp.normal) <= 0
        /\ tmp.frontfacing = (dot(r.dir, LastOutwardNormal) < 0)
        /\ tmp.normal = IF dot(r.dir, LastOutwardNormal) < 0
                         THEN LastOutwardNormal ELSE VNeg(LastOutwardNormal)

\* C3 witness: a back-face hit (the ray leaves the sphere), normal turned inward.
C3_Witness ==
    /\ last_call.hit
    /\ ~tmp.frontfacing
    /\ tmp.normal = VNeg(LastOutwardNormal)
    /\ dot(r.dir, tmp.normal) < 0

\* C4: hittable_list::hit leaves the caller's record as it was whenever it
\* returns false, and a step of the loop changes the record only to a member's
\* hit strictly closer than the closest found so far.
C4_RecordWrittenOnlyOnCloserHit ==
    [][ /\ (pcH' = "done" /\ ~hit_anything') => rec' = rec0
        /\ rec' # rec =>
               /\ sphere_hit(scene_objects[idx + 1], r, ray_t, tmp).hit
               /\ rec' = sphere_hit(scene_objects[idx + 1], r, ray_t, tmp).rec
               /\ rec'.t < closest_so_far
               /\ hit_anything' ]_vars

\* C4 witness: a list with members returned false on a record that held an
\* earlier hit.
C4_Witness ==
    /\ pcH = "done"
    /\ ~hit_anything
    /\ Len(scene_objects) > 0
    /\ rec.mat # "null"
    /\ rec = rec0

\* The quadratic of the member the loop asked last: |dir|^2, dir . (orig - center),
\* |orig - center|^2 - radius^2, and the discriminant half_b^2 - a*c
LastQuadratic ==
    LET coefficients(a, half_b, c) ==
            [a |-> a, half_b |-> half_b, disc |-> Mul(half_b, half_b) - Mul(a, c)]
        about(oc) ==
            coefficients(Mul(r.dir[1], r.dir[1]) + Mul(r.dir[2], r.dir[2]) + Mul(r.dir[3], r.dir[3]),
                         Mul(r.dir[1], oc[1]) + Mul(r.dir[2], oc[2]) + Mul(r.dir[3], oc[3]),
                         Mul(oc[1], oc[1]) + Mul(oc[2], oc[2]) + Mul(oc[3], oc[3])
                             - Mul(LastMember.radius, LastMember.radius))
    IN  about(<<r.orig[1] - LastMember.center[1], r.orig[2] - LastMember.center[2],
                r.orig[3] - LastMember.center[3]>>)

\* (-half_b - sqrt(disc))/a and (-half_b + sqrt(disc))/a, for disc >= 0
SmallerRoot(q) == Div(-q.half_b - Sqrt(q.disc), q.a)

LargerRoot(q) == Div(-q.half_b + Sqrt(q.disc), q.a)

StrictlyInside(iv, x) == iv.min < x /\ x < iv.max

\* What C14 asks of the member call made last; disc is its discriminant, smaller
\* and larger are the two roots (read only where disc >= 0)
RootSelected(disc, smaller, larger) ==
    LET chosen(small_in, large_in) ==
            /\ small_in => last_call.hit /\ tmp.t = smaller
            /\ (~small_in /\ large_in) => last_call.hit /\ tmp.t = larger
            /\ (~small_in /\ ~large_in) => ~last_call.hit
            /\ (last_call.hit /\ tmp.t # smaller) => ~small_in
    IN  /\ disc < 0 => ~last_call.hit
        /\ disc >= 0 => chosen(StrictlyInside(last_call.iv, smaller),
                               StrictlyInside(last_call.iv, larger))
        /\ last_call.hit => tmp.t # last_call.iv.min /\ tmp.t # last_call.iv.max

\* The roots of the quadratic q of the member call made last, against the call
QuadraticDecides(q) == RootSelected(q.disc, SmallerRoot(q), LargerRoot(q))

\* C14: sphere::hit reports no hit when the discriminant is negative; otherwise
\* the smaller root whenever it lies strictly inside the interval, the larger
\* root exactly when the smaller is not strictly inside and the larger is, and
\* no hit when neither is: a root equal to a bound of the interval is never
\* reported.
C14_RootSelection == idx > 0 => QuadraticDecides(LastQuadratic)

\* C14 witness: the smaller root equals the lower bound of the interval and the
\* larger root is reported.
C14_Witness ==
    /\ idx > 0
    /\ LastQuadratic.disc > 0
    /\ SmallerRoot(LastQuadratic) = last_call.iv.min
    /\ last_call.hit
    /\ tmp.t = LargerRoot(LastQuadratic)

\* What C15 asks after some passes of the loop; answers holds, for each member k
\* visited, the pair of k and what the member answers when asked alone over the
\* query interval.  Of the visited members that hit, the record is that of the
\* first in list order among those with the least t.
FirstOfTied(answers) ==
    LET stands(p) ==
            /\ hit_anything
            /\ rec = p[2].rec
            /\ rec.mat = scene_objects[p[1]].mat
            /\ closest_so_far = p[2].rec.t
        first(hits) ==
            hits # {} =>
                stands(CHOOSE p \in hits :
                           \A q \in hits : \/ p[2].rec.t < q[2].rec.t
                                           \/ p[2].rec.t = q[2].rec.t /\ p[1] <= q[1])
    IN  first({ p \in answers : p[2].hit })

\* C15: when several members hit at the same least t, the record returned, its
\* material included, is that of the first of them in list order: a later member
\* replaces the closest hit only with a strictly smaller t.
C15_FirstOfTiedMembers ==
    pcH \in {"loop", "done"} =>
        FirstOfTied({ <<k, sphere_hit(scene_objects[k], r, ray_t, tmp)>> : k \in 1..idx })

\* C15 witness: two members of different materials hit at the same least t, and
\* the record carries the material of the one that comes first.
C15_Witness ==
    /\ pcH = "done"
    /\ \E j, k \in MemberHits :
          /\ j < k
          /\ MemberT(j) = MemberT(k)
          /\ rec.t = MemberT(j)
          /\ scene_objects[j].mat # scene_objects[k].mat
          /\ rec.mat = scene_objects[j].mat

----------------------------------------------------------------------------
(* Claims on the materials *)

Returned(kind) == pcS = "returned" /\ Materials[mat].kind = kind

\* C7: a lambertian or metal scatter that returns true never leaves a scattered
\* ray whose direction is the zero vector; when normal + random_unit_vector() is
\* zero in lambertian::scatter the direction is the normal.
C7_ScatteredDirectionNonzero ==
    /\ (Returned("lambertian") \/ Returned("metal")) /\ scatter_ret
          => scattered.dir # <<0, 0, 0>>
    /\ Returned("lambertian") /\ scatter_ret /\ trace.sum = <<0, 0, 0>>
          => scattered.dir = hrec.normal

\* C7 witness: lambertian::scatter drew the vector opposite to the normal.
C7_Witness ==
    /\ Returned("lambertian")
    /\ scatter_ret
    /\ trace.sum = <<0, 0, 0>>
    /\ scattered.dir = hrec.normal

\* C8: metal::scatter returns true exactly when reflected + fuzz *
\* random_unit_vector has a strictly positive dot product with the normal, false
\* when it is zero or negative, and a true return carries attenuation = albedo.
C8_MetalAbsorbsBelowSurface ==
    Returned("metal") =>
        LET direction == VAdd(trace.reflected, VScale(Materials[mat].fuzz, trace.ruv))
        IN  /\ scatter_ret <=> dot(direction, hrec.normal) > 0
            /\ scattered.dir = direction
            /\ scatter_ret => attenuation = Materials[mat].albedo

\* C8 witness: a fuzzed reflection pushed below the surface is absorbed.
C8_Witness ==
    /\ Returned("metal")
    /\ ~scatter_ret
    /\ dot(trace.reflected, hrec.normal) > 0
    /\ dot(scattered.dir, hrec.normal) <= 0

\* C9: in dielectric::scatter, refraction_ratio * sin_theta > 1 makes the
\* scattered direction the reflection of the unit incoming direction about the
\* normal whatever the draw is; the refracted direction is taken only when
\* refraction_ratio * sin_theta <= 1 and the reflectance does not exceed the draw.
C9_TotalInternalReflection ==
    Returned("dielectric") =>
        /\ (~trace.sin_is_nan /\ trace.ratio_sin > Unit) =>
              /\ trace.branch = "reflect"
              /\ scattered.dir = reflect(trace.unit_direction, hrec.normal)
        /\ trace.branch = "refract" =>
              /\ ~trace.sin_is_nan
              /\ trace.ratio_sin <= Unit
              /\ trace.reflectance <= trace.draw

\* C9 witness: total internal reflection with a draw the reflectance is below.
C9_Witness ==
    /\ Returned("dielectric")
    /\ ~trace.sin_is_nan
    /\ trace.ratio_sin > Unit
    /\ trace.reflectance <= trace.draw
    /\ trace.branch = "reflect"

\* C20: lambertian::scatter returns true for every incoming ray, hit record and
\* value of its draws (does_it_scatter, always below 1, and the random unit
\* vector), with attenuation = albedo and a scattered ray that starts at the hit
\* point.
C20_LambertianAlwaysScatters ==
    /\ Returned("lambertian") =>
          /\ scatter_ret
          /\ trace.branch = "scatter"
          /\ attenuation = Materials[mat].albedo
          /\ scattered.orig = hrec.p
    /\ (pcS = "call" /\ Materials[mat].kind = "lambertian") =>
          \A res \in scatter_outcomes(Materials[mat], r_in, hrec, attenuation, scattered) :
              res.ok /\ res.attenuation = Materials[mat].albedo /\ res.scattered.orig = hrec.p

\* C20 witness: a lambertian scatter off a back face returned true with a
\* direction that is not the fallback.
C20_Witness ==
    /\ Returned("lambertian")
    /\ scatter_ret
    /\ ~hrec.frontfacing
    /\ trace.sum # <<0, 0, 0>>
    /\ scattered.dir = trace.sum
    /\ attenuation = Materials[mat].albedo
    /\ scattered.orig = hrec.p

----------------------------------------------------------------------------
(* Claims on the integrator and the renderer *)

NonNegative(d) == IF d < 0 THEN 0 ELSE d

\* Some statement of ray_color can run: the innermost activation has a return or a
\* call to make, or the value it waits for has come back.
StepPossible ==
    \/ stack = <<>>
    \/ Top.attenuation = <<>> /\ ray_color_step(Top.ray, Top.depth, world) # {}
    \/ Top.attenuation # <<>> /\ retval # <<>>

\* A bound on the steps ray_color still has to take: one for returning to the
\* caller, one for each activation to leave, two for each call the innermost
\* activation can still nest.
StepsLeft ==
    IF pcC = "done" THEN 0
    ELSE 1 + Len(stack) +
         (IF stack # <<>> /\ Top.attenuation = <<>> THEN 2 * (NonNegative(Top.depth) + 1) ELSE 0)

\* What C5 asks of one step of ray_color
RayColorStepBounded ==
    /\ Len(stack') > Len(stack) =>
          /\ Top.depth > 0
          /\ stack'[Len(stack')].depth = Top.depth - 1
    /\ StepsLeft' < StepsLeft

\* C5: ray_color terminates, and its nesting never exceeds the depth of the
\* top-level call: activation k runs with depth0 - (k - 1), an activation calls
\* itself only with depth > 0 and passes depth - 1, so a top-level call with
\* depth d >= 0 has at most d nested calls below it.  Termination: until the
\* top-level call has returned a step is possible, and every step lowers
\* StepsLeft, which is never negative.
C5_RecursionBounded ==
    /\ [](/\ Len(stack) <= NonNegative(depth0) + 1
          /\ \A k \in 1..Len(stack) : stack[k].depth = depth0 - (k - 1)
          /\ StepsLeft >= 0
          /\ pcC = "run" => StepPossible)
    /\ [][RayColorStepBounded]_vars

\* C5 witness: in a closed scene every bounce hit and scattered, down to the
\* activation with depth 0.
C5_Witness ==
    /\ pcC = "run"
    /\ depth0 = MaxDepth
    /\ Len(stack) = MaxDepth + 1
    /\ Top.depth = 0
    /\ world = <<Shell("steel")>>

\* C6: with max_depth = 0 the accumulator stays (0,0,0) and every pixel render
\* writes is 0 0 0, whatever the scene; ray_color with depth <= 0 has the one
\* outcome `return color(0,0,0)` in every scene.
C6_ZeroDepthRendersBlack ==
    (pcR # "begin" /\ cam.max_depth = 0) =>
        /\ pixel_color = V(0,0,0)
        /\ emitted \in { <<>>, <<0, 0, 0>> }
        /\ \A w \in Worlds, ray \in get_ray(cam, loop_i % cam.image_width,
                                             loop_j % cam.image_height),
              d \in {-1, 0} :
              ray_color_step(ray, d, w) = { [kind |-> "return", color |-> V(0,0,0)] }

\* C6 witness: the last pixel of an image of several pixels of a fully reflective
\* metal scene is written as 0 0 0.
C6_Witness ==
    /\ pcR = "col"
    /\ cam.max_depth = 0
    /\ world = <<Shell("steel")>>
    /\ emitted = <<0, 0, 0>>
    /\ Len(out) = cam.image_width * cam.image_height
    /\ Len(out) > 1

\* What C10 asks of one step of render
RenderStepSampled ==
    /\ out' # out =>
          /\ out' = Append(out, <<loop_i, loop_j>>)
          /\ loop_i < cam.image_width
          /\ loop_j < cam.image_height
          /\ n_acc = cam.samples_per_pixel
          /\ last_sample.pi = loop_i
          /\ last_sample.pj = loop_j
          /\ emitted' = write_color(pixel_color, cam.samples_per_pixel)
    /\ n_acc' # n_acc =>
          \/ n_acc' = 0 /\ pixel_color' = V(0,0,0)
          \/ /\ n_acc' = n_acc + 1
             /\ n_acc < cam.samples_per_pixel
             /\ last_sample' = [pi |-> loop_i, pj |-> loop_j, depth |-> cam.max_depth]
             /\ \E ray \in get_ray(cam, loop_i, loop_j) :
                   \E col \in ray_color(ray, cam.max_depth, world) :
                      pixel_color' = VAdd(pixel_color, col)
    /\ pixel_color' # pixel_color => n_acc' # n_acc
    /\ (pcR' = "done" /\ pcR # "done") =>
          Len(out) = cam.image_width * cam.image_height

\* C10: render writes image_width * image_height pixels, pixel k being column
\* (k - 1) mod image_width of row (k - 1) div image_width; a pixel is written only
\* when samples_per_pixel colours have been added to its accumulator since the
\* accumulator was set to (0,0,0); each colour added is a result of ray_color at
\* depth max_depth on a ray get_ray makes for that pixel.
C10_RowMajorSampledPixels ==
    /\ [](\A k \in 1..Len(out) :
              out[k] = <<(k - 1) % cam.image_width, (k - 1) \div cam.image_width>>)
    /\ [][RenderStepSampled]_vars

\* C10 witness: the largest image, of more than one row, has been written whole,
\* its last pixel from the largest number of samples, which were not all black.
C10_Witness ==
    /\ pcR = "done"
    /\ cam.image_width = MaxWidth
    /\ cam.image_height > 1
    /\ cam.samples_per_pixel = MaxSamples
    /\ Len(out) = cam.image_width * cam.image_height
    /\ n_acc = MaxSamples
    /\ pixel_color # V(0,0,0)

\* (1-a)*(1,1,1) + a*(0.5,0.7,1.0) with a = 0.5*(d.y + 1)
Gradient(d) ==
    LET a == Mul(Unit \div 2, d[2] + Unit)
    IN  <<Mul(Unit - a, Unit) + Mul(a, Unit \div 2),
          Mul(Unit - a, Unit) + Mul(a, (7 * Unit) \div 10),
          Mul(Unit - a, Unit) + Mul(a, Unit)>>

\* What C12 asks of a top-level ray_color call that returns from an empty scene
EmptySceneReturnsGradient ==
    (world = <<>> /\ Len(stack) = 1 /\ Top.depth > 0 /\ stack' = <<>>)
        => retval' = Gradient(unit_vector(Top.ray.dir))

\* C12: with no objects hittable_list::hit returns false for every ray and every
\* interval, and ray_color with depth > 0 returns the gradient
\* (1-a)*(1,1,1) + a*(0.5,0.7,1.0), a = 0.5*(d.y + 1), of the normalized
\* direction d of its ray.
C12_EmptySceneBackground ==
    /\ [](\A ray \in Rays, iv \in Intervals, h \in CallerRecords :
              hittable_list_hit(<<>>, ray, iv, h, FreshRecord) = [hit |-> FALSE, rec |-> h])
    /\ [][EmptySceneReturnsGradient]_vars

\* The component-wise product of an attenuation and a colour
Attenuated(a, c) == <<Mul(a[1], c[1]), Mul(a[2], c[2]), Mul(a[3], c[3])>>

RECURSIVE PathValue(_, _, _)
\* What the top-level call returns once the activations st[1..k], each waiting with
\* its attenuation, have multiplied it onto the colour c returned to st[k]
PathValue(st, k, c) ==
    IF k = 0 THEN c ELSE PathValue(st, k - 1, Attenuated(st[k].attenuation, c))

\* What C16 asks of one step of ray_color; res is the innermost activation's test
\* of the scene over (0.001, +infinity)
RayColorStepMultiplies(res) ==
    LET scatters == scatter_outcomes(Materials[res.rec.mat], Top.ray, res.rec,
                                     FreshColor, FreshRay)
    IN  /\ Len(stack') > Len(stack) =>
              /\ Top.depth > 0
              /\ res.hit
              /\ \E sc \in scatters :
                    /\ sc.ok
                    /\ stack'[Len(stack)].attenuation = sc.attenuation
                    /\ stack'[Len(stack')] = Frame(sc.scattered, Top.depth - 1)
        /\ (Len(stack') < Len(stack) /\ Top.attenuation = <<>> /\ Top.depth > 0) =>
              IF res.hit
              THEN retval' = V(0,0,0) /\ \E sc \in scatters : ~sc.ok
              ELSE \E g \in LongHighBits : retval' = Gradient(unit_vectorQ(Top.ray.dir, g))
        /\ (Len(stack') < Len(stack) /\ Top.attenuation = <<>> /\ Top.depth <= 0) =>
              retval' = V(0,0,0)
        /\ (Len(stack') < Len(stack) /\ Top.attenuation # <<>>) =>
              /\ retval' = Attenuated(Top.attenuation, retval)
              /\ PathValue(stack', Len(stack'), retval') = PathValue(stack, Len(stack), retval)

\* C16: with depth > 0 ray_color tests the scene over (0.001, +infinity) only; on a
\* hit whose material scatters it returns the component-wise product of the
\* attenuation and ray_color(scattered, depth - 1, world), on a hit whose material
\* absorbs it returns black, so a path is worth the product of the attenuations
\* of its bounces and its last colour (background, or black).
C16_AttenuationMultiplies ==
    [][stack # <<>> =>
          RayColorStepMultiplies(hittable_list_hit(world, Top.ray,
                                                   [min |-> 1, max |-> infinity],
                                                   FreshRecord, FreshRecord))]_vars

\* C16 witness: a path that bounced off the lambertian ball and left the scene has
\* returned the albedo times the background.
C16_Witness ==
    /\ pcC = "done"
    /\ depth0 = MaxDepth
    /\ world = <<Ball("ground")>>
    /\ retval[3] = Mul(Materials["ground"].albedo[3], Unit)
    /\ retval[3] \notin {0, Unit}

----------------------------------------------------------------------------
(* Claims on the pixel writer *)

\* The accumulator whose average over the samples is (1,1,1)
AllOnes(n) == <<n * Unit, n * Unit, n * Unit>>

\* C11: write_color writes 0 0 0 for the accumulator (0,0,0) with every sample
\* count >= 1, and 255 255 255 for an accumulator that is samples_per_pixel times
\* (1,1,1).
C11_BlackAndWhiteSerialized ==
    pcR = "written" =>
        /\ pixel_color = V(0,0,0) => emitted = <<0, 0, 0>>
        /\ pixel_color = AllOnes(cam.samples_per_pixel) => emitted = <<255, 255, 255>>

\* C11 witness: the sum of several samples of (1,1,1) was written as 255 255 255.
C11_Witness ==
    /\ pcR = "written"
    /\ cam.samples_per_pixel = MaxSamples
    /\ cam.samples_per_pixel > 1
    /\ pixel_color = AllOnes(cam.samples_per_pixel)
    /\ emitted = <<255, 255, 255>>

\* The largest value a channel is scaled from: 0.999
Saturated(x) == IF x > Unit - 1 THEN Unit - 1 ELSE x

\* C19: for every accumulator with channels that are not negative and every
\* sample count >= 1, each of the three values write_color writes is an integer
\* in 0..255: 255.999 times a value of [0, 0.999], truncated.
C19_ChannelsWithinByte ==
    pcR = "written" =>
        LET truncated(n, x) ==
                /\ x \in 0..(Unit - 1)
                /\ n * Unit <= Mul(255 * Unit + (Unit - 1), x)
                /\ Mul(255 * Unit + (Unit - 1), x) < (n + 1) * Unit
        IN  \A k \in 1..3 :
                /\ emitted[k] \in 0..255
                /\ truncated(emitted[k],
                             Saturated(Sqrt(Mul(pixel_color[k],
                                                Div(Unit, cam.samples_per_pixel * Unit)))))

\* C19 witness: a channel far above the sample count was written as 255, next to
\* a channel written as 0.
C19_Witness ==
    /\ pcR = "written"
    /\ pixel_color[1] = 1000 * Unit
    /\ pixel_color[2] = 0
    /\ emitted[1] = 255
    /\ emitted[2] = 0

----------------------------------------------------------------------------
(* Claims on the vector kernel and the constructors *)

CallReturned(f) == pcK = "returned" /\ fn = f

\* |x| < 1e-8, for x a double of the model: 1e-8 is the 100000000/Unit-th part
\* of one step
BelowThreshold(x) == Abs(x) * (100000000 \div Unit) < 1

\* C13: near_zero returns true exactly when all three components have magnitude
\* below 1e-8: true for the zero vector, false for a vector with a component of
\* magnitude >= 1e-8.
C13_NearZeroAllComponents ==
    CallReturned("near_zero") =>
        (fn_ret <=> \A k \in 1..3 : BelowThreshold(fn_arg[k]))

\* C17 as stated: for every argument f the stored fuzz lies in [0,1].
C17_FuzzWithinUnitInterval ==
    CallReturned("metal") => fn_ret.fuzz >= 0 /\ fn_ret.fuzz <= Unit

\* C17, amended: for every argument f the stored fuzz is f when f < 1 and 1
\* otherwise, so it is never above 1; it lies in [0,1] whenever f >= 0, as for
\* every argument main passes.
C17_FuzzClampedAbove ==
    CallReturned("metal") =>
        /\ fn_ret.fuzz <= Unit
        /\ fn_ret.fuzz = (IF fn_arg.f < Unit THEN fn_arg.f ELSE Unit)
        /\ fn_arg.f >= 0 => fn_ret.fuzz >= 0
        /\ fn_arg.f \in random_double_in(0, Unit \div 2, RandomDoubles) \cup {0}
              => fn_ret.fuzz = fn_arg.f /\ fn_ret.fuzz \in 0..Unit
        /\ fn_ret.albedo = fn_arg.a

\* C17 witness: an argument above 1 was stored as 1.
C17_Witness ==
    /\ CallReturned("metal")
    /\ fn_arg.f > Unit
    /\ fn_ret.fuzz = Unit

----------------------------------------------------------------------------
(* Claims on the scene *)

\* What C18 asks of one step of render
SceneKept ==
    /\ world' = world
    /\ \A k \in 1..Len(world) :
          /\ world'[k].center = world[k].center
          /\ world'[k].radius = world[k].radius
          /\ world'[k].mat = world[k].mat

====
